---- MODULE Spec2Model ----
(***************************************************************************)
(* The semantic validator of the workflow translator                       *)
(* (src/src/translator/validator.py, class WorkflowValidator) as a state   *)
(* machine.  A state is one WorkflowValidator object: the immutable        *)
(* workflow document it was constructed with (nodes, edges, parameters)    *)
(* and its mutable fields (graph, available_outputs), together with the    *)
(* outcome of the last public call made on it.                             *)
(*                                                                         *)
(* Python strings are sequences of one-character strings, so that          *)
(* str.split, re.findall and the code-point order used by list.sort are    *)
(* computed, not assumed.  A call either returns or raises; both outcomes  *)
(* are values of the model (the records built by Ok and Raise).            *)
(***************************************************************************)
EXTENDS Integers, Sequences, FiniteSets, TLC

VARIABLES
    nodes,              \* self.workflow.nodes: list of NodeModel
    edges,              \* self.workflow.edges == self.edges: list of EdgeModel
    parameters,         \* self.skill.skill.inputs.parameters: list of names
    graph,              \* self.graph: None or the dict of _build_graph
    available_outputs,  \* self.available_outputs: dict node_id -> set of names
    ret,                \* outcome of the last call made on the validator
    last_order,         \* outcome of the get_topological_order() call before it
    kahn,               \* locals of a running _get_topological_order() call
    pipeline            \* the generated pipeline and its run (graph.py)

vars ==
    <<nodes, edges, parameters, graph, available_outputs, ret, last_order,
      kahn, pipeline>>

(***************************************************************************)
(* Bounds of the explored documents.                                       *)
(***************************************************************************)
MaxNodes == 2
MaxEdges == 2
MaxOrderNodes == 3
MaxOrderEdges == 2
MaxTokens == 3
MaxKahnNodes == 3
MaxKahnEdges == 2
MaxStateKeys == 2
MaxItems == 2

(***************************************************************************)
(* Python str: code points, comparison, sorting.                           *)
(***************************************************************************)
None == [t |-> "none", v |-> <<>>]

Range(q) == {q[i] : i \in 1..Len(q)}

Letters ==
    <<"a", "b", "c", "d", "e", "f", "g", "h", "i", "j", "k", "l", "m",
      "n", "o", "p", "q", "r", "s", "t", "u", "v", "w", "x", "y", "z">>

\* ord(c) for the characters the documents use
CodePoints ==
    [c \in Range(Letters) \cup {" ", "_", "{", "}"} |->
        IF c = " " THEN 32
        ELSE IF c = "_" THEN 95
        ELSE IF c = "{" THEN 123
        ELSE IF c = "}" THEN 125
        ELSE 96 + (CHOOSE i \in 1..Len(Letters) : Letters[i] = c)]

Ord(c) == CodePoints[c]

\* str.__lt__: lexicographic by code point, a proper prefix is smaller
RECURSIVE StrLess(_, _)
StrLess(s, t) ==
    IF t = <<>> THEN FALSE
    ELSE IF s = <<>> THEN TRUE
    ELSE IF Ord(Head(s)) < Ord(Head(t)) THEN TRUE
    ELSE IF Ord(Head(s)) > Ord(Head(t)) THEN FALSE
    ELSE StrLess(Tail(s), Tail(t))

RemoveAt(q, i) == SubSeq(q, 1, i - 1) \o SubSeq(q, i + 1, Len(q))

\* sorted(xs) / list.sort() on a list of str
RECURSIVE Sorted(_)
Sorted(q) ==
    IF q = <<>> THEN <<>>
    ELSE LET i == CHOOSE i \in 1..Len(q) :
                    /\ \A j \in 1..Len(q) : ~StrLess(q[j], q[i])
                    /\ \A j \in 1..(i - 1) : q[j] # q[i]
         IN <<q[i]>> \o Sorted(RemoveAt(q, i))

\* the list a set of str sorts to
RECURSIVE SortedSet(_)
SortedSet(S) ==
    IF S = {} THEN <<>>
    ELSE LET m == CHOOSE m \in S : \A x \in S : ~StrLess(x, m)
         IN <<m>> \o SortedSet(S \ {m})

(***************************************************************************)
(* Outcomes of a call.                                                     *)
(***************************************************************************)
Ok(value) == [kind |-> "ok", exc |-> "", value |-> value]

Raise(exc, arg) == [kind |-> "raise", exc |-> exc, value |-> arg]

(***************************************************************************)
(* WorkflowValidator.__init__ and _build_graph.                            *)
(***************************************************************************)
\* [node.id for node in self.workflow.nodes]
RECURSIVE NodeIdList(_)
NodeIdList(wnodes) ==
    IF wnodes = <<>> THEN <<>>
    ELSE <<Head(wnodes).id>> \o NodeIdList(Tail(wnodes))

\* keys of {node.id: ... for node in self.workflow.nodes}, in insertion order
RECURSIVE DictKeys(_)
DictKeys(ids) ==
    IF ids = <<>> THEN <<>>
    ELSE LET front == DictKeys(SubSeq(ids, 1, Len(ids) - 1))
             last == ids[Len(ids)]
         IN IF last \in Range(front) THEN front ELSE Append(front, last)

\* self.nodes[node_id]: the last node of the document with that id
NodeById(wnodes, node_id) ==
    LET i == CHOOSE i \in 1..Len(wnodes) :
                /\ wnodes[i].id = node_id
                /\ \A j \in (i + 1)..Len(wnodes) : wnodes[j].id # node_id
    IN wnodes[i]

\* the endpoints an edge contributes to the adjacency list and in-degree map
EdgePairSwapped(e) == <<e.target_node, e.source_node>>

EdgePair(e) == <<e.source_node, e.target_node>>

RECURSIVE EdgePairs(_)
EdgePairs(wedges) ==
    IF wedges = <<>> THEN <<>>
    ELSE <<EdgePair(Head(wedges))>> \o EdgePairs(Tail(wedges))

_build_graph(wnodes, wedges) ==
    [t |-> "dict",
     v |-> [nodes |-> NodeIdList(wnodes), edges |-> EdgePairs(wedges)]]

(***************************************************************************)
(* WorkflowValidator._get_topological_order: Kahn's algorithm.             *)
(***************************************************************************)
\* queue.sort()
QueueSortNone(queue) == queue

QueueSort(queue) == Sorted(queue)

\* a relaxation that queues the neighbor whatever its in-degree has become
RelaxRequeue(st, neighbor) ==
    [in_degree |-> [st.in_degree EXCEPT ![neighbor] = @ - 1],
     queue |-> Append(st.queue, neighbor),
     result |-> st.result]

\* in_degree[neighbor] -= 1; if in_degree[neighbor] == 0: queue.append(neighbor)
Relax(st, neighbor) ==
    LET d == st.in_degree[neighbor] - 1
    IN [in_degree |-> [st.in_degree EXCEPT ![neighbor] = d],
        queue |-> IF d = 0 THEN Append(st.queue, neighbor) ELSE st.queue,
        result |-> st.result]

RECURSIVE RelaxAll(_, _)
RelaxAll(st, neighbors) ==
    IF neighbors = <<>> THEN st
    ELSE RelaxAll(Relax(st, Head(neighbors)), Tail(neighbors))

\* one iteration of `while queue:`
KahnStep(st, adj_list) ==
    LET sorted == QueueSort(st.queue)
        node_id == Head(sorted)
    IN RelaxAll([in_degree |-> st.in_degree,
                 queue |-> Tail(sorted),
                 result |-> Append(st.result, node_id)],
                adj_list[node_id])

RECURSIVE KahnLoop(_, _)
KahnLoop(st, adj_list) ==
    IF st.queue = <<>> THEN st ELSE KahnLoop(KahnStep(st, adj_list), adj_list)

\* the keys the edge loop looks up that are not node ids, in lookup order
RECURSIVE MissingKeys(_, _)
MissingKeys(pairs, keyset) ==
    IF pairs = <<>> THEN <<>>
    ELSE (IF Head(pairs)[1] \notin keyset THEN <<Head(pairs)[1]>> ELSE <<>>)
         \o (IF Head(pairs)[2] \notin keyset THEN <<Head(pairs)[2]>> ELSE <<>>)
         \o MissingKeys(Tail(pairs), keyset)

\* adj_list[k]: the targets of k's edges, in edge order
RECURSIVE Targets(_, _)
Targets(pairs, k) ==
    IF pairs = <<>> THEN <<>>
    ELSE (IF Head(pairs)[1] = k THEN <<Head(pairs)[2]>> ELSE <<>>)
         \o Targets(Tail(pairs), k)

\* the state of Kahn's loop when `while queue:` is first reached
KahnInit(wnodes, wedges) ==
    LET keys == DictKeys(NodeIdList(wnodes))
        pairs == EdgePairs(wedges)
        in_degree == [k \in Range(keys) |->
                        Cardinality({i \in 1..Len(pairs) : pairs[i][2] = k})]
    IN [in_degree |-> in_degree,
        queue |-> SelectSeq(keys, LAMBDA k : in_degree[k] = 0),
        result |-> <<>>]

AdjList(wnodes, wedges) ==
    [k \in Range(NodeIdList(wnodes)) |-> Targets(EdgePairs(wedges), k)]

_get_topological_order(wnodes, wedges) ==
    LET missing == MissingKeys(EdgePairs(wedges), Range(NodeIdList(wnodes)))
    IN IF missing # <<>> THEN Raise("KeyError", Head(missing))
       ELSE LET final == KahnLoop(KahnInit(wnodes, wedges), AdjList(wnodes, wedges))
            IN IF Len(final.result) # Len(wnodes)
               THEN Raise("ValueError", <<>>)
               ELSE Ok(final.result)

(***************************************************************************)
(* Python values of a node config (NodeConfigModel.model_dump()).          *)
(***************************************************************************)
PyStr(chars) == [t |-> "str", v |-> chars]

PyNum(n) == [t |-> "num", v |-> <<n>>]

PyList(items) == [t |-> "list", v |-> items]

\* a dict is its items in insertion order: <<key, value>> pairs
PyDict(items) == [t |-> "dict", v |-> items]

\* NodeConfigModel.model_dump(): every declared field, in declaration order
model_dump(config) ==
    PyDict(<< <<"function_name", config.function_name>>,
              <<"function_params", config.function_params>>,
              <<"model", config.model>>,
              <<"prompt_template", config.prompt_template>>,
              <<"temperature", config.temperature>>,
              <<"component_type", config.component_type>>,
              <<"template", config.template>> >>)

\* `not value` for an Optional[str] field: None or the empty string
Falsy(value) == value = None \/ value = PyStr(<<>>)

(***************************************************************************)
(* re.findall(r'\{\{(\w+)\}\}', s)                                         *)
(***************************************************************************)
\* \w for the characters the documents use
WordChars == Range(Letters) \cup {"_"}

IsWordChar(c) == c \in WordChars

\* the length of the longest run of \w characters of s starting at j
RECURSIVE WordRun(_, _)
WordRun(s, j) ==
    IF j > Len(s) \/ ~IsWordChar(s[j]) THEN 0 ELSE 1 + WordRun(s, j + 1)

\* the length of the name if the pattern matches at i, else 0
MatchAt(s, i) ==
    LET w == WordRun(s, i + 2)
    IN IF /\ i + 3 + w <= Len(s)
          /\ s[i] = "{" /\ s[i + 1] = "{"
          /\ w >= 1
          /\ s[i + 2 + w] = "}" /\ s[i + 3 + w] = "}"
       THEN w ELSE 0

\* the names of the non-overlapping matches, scanning from i, left to right
RECURSIVE FindAllFrom(_, _)
FindAllFrom(s, i) ==
    IF i > Len(s) THEN <<>>
    ELSE LET w == MatchAt(s, i)
         IN IF w > 0
            THEN <<SubSeq(s, i + 2, i + 1 + w)>> \o FindAllFrom(s, i + w + 4)
            ELSE FindAllFrom(s, i + 1)

FindAll(s) == FindAllFrom(s, 1)

(***************************************************************************)
(* WorkflowValidator._extract_variables / _search_dict_for_variables.      *)
(***************************************************************************)
\* the names `variables` is updated with while searching obj
RECURSIVE _search_dict_for_variables(_)
_search_dict_for_variables(obj) ==
    IF obj.t = "dict"
    THEN UNION {_search_dict_for_variables(obj.v[i][2]) : i \in 1..Len(obj.v)}
    ELSE IF obj.t = "list"
    THEN UNION {_search_dict_for_variables(obj.v[i]) : i \in 1..Len(obj.v)}
    ELSE IF obj.t = "str"
    THEN Range(FindAll(obj.v))
    ELSE {}

_extract_variables(node) == _search_dict_for_variables(model_dump(node.config))

(***************************************************************************)
(* WorkflowValidator._infer_output_name.                                   *)
(***************************************************************************)
\* s.split(sep) for a one-character separator
RECURSIVE Split(_, _)
Split(s, sep) ==
    IF s = <<>> THEN << <<>> >>
    ELSE LET rest == Split(Tail(s), sep)
         IN IF Head(s) = sep
            THEN << <<>> >> \o rest
            ELSE << <<Head(s)>> \o Head(rest) >> \o Tail(rest)

\* sep.join(parts)
RECURSIVE Join(_, _)
Join(parts, sep) ==
    IF parts = <<>> THEN <<>>
    ELSE IF Len(parts) = 1 THEN Head(parts)
    ELSE Head(parts) \o <<sep>> \o Join(Tail(parts), sep)

Enrich == <<"e", "n", "r", "i", "c", "h">>
Enriched == Enrich \o <<"e", "d">>
Summarize == <<"s", "u", "m", "m", "a", "r", "i", "z", "e">>
Summarized == Summarize \o <<"d">>
Process == <<"p", "r", "o", "c", "e", "s", "s">>
Processed == Process \o <<"e", "d">>
Transform == <<"t", "r", "a", "n", "s", "f", "o", "r", "m">>
Transformed == Transform \o <<"e", "d">>

\* the keys of the `transforms` dict
TransformVerbs == {Enrich, Summarize, Process, Transform}

\* transforms[verb]
transforms(verb) ==
    IF verb = Enrich THEN Enriched
    ELSE IF verb = Summarize THEN Summarized
    ELSE IF verb = Process THEN Processed
    ELSE Transformed

\* a rewrite that keeps only the token after the verb
RewrittenSecondOnly(parts) == transforms(parts[1]) \o <<"_">> \o parts[2]

\* f"{transforms[verb]}_{'_'.join(parts[1:])}"
Rewritten(parts) == transforms(parts[1]) \o <<"_">> \o Join(Tail(parts), "_")

_infer_output_name(node_id) ==
    LET parts == Split(node_id, "_")
    IN IF Len(parts) > 1 /\ parts[1] \in TransformVerbs
       THEN Rewritten(parts)
       ELSE node_id

(***************************************************************************)
(* WorkflowValidator._build_outputs_map.                                   *)
(***************************************************************************)
\* the names a node adds to `available` (lines 104-111)
NodeOutputNames(node) ==
    IF node.outputs # <<>>
    THEN {node.outputs[i].name : i \in 1..Len(node.outputs)}
    ELSE {_infer_output_name(node.id)}

\* self.available_outputs[node_id] = available.copy(), taken before the
\* node's own outputs are added
ScopeOfWithOwn(available, node) == available \cup NodeOutputNames(node)

ScopeOf(available, node) == available

\* a sweep that keeps only the latest node's names
AddOutputsForgetting(available, node) == NodeOutputNames(node)

\* available.add(...) for each name of the node (lines 104-111)
AddOutputs(available, node) == available \cup NodeOutputNames(node)

\* the forward sweep over topo_order: the updated dict
RECURSIVE Sweep(_, _, _, _)
Sweep(wnodes, order, available, outputs_map) ==
    IF order = <<>> THEN outputs_map
    ELSE LET node_id == Head(order)
             node == NodeById(wnodes, node_id)
             recorded == [k \in DOMAIN outputs_map \cup {node_id} |->
                            IF k = node_id THEN ScopeOf(available, node)
                            ELSE outputs_map[k]]
         IN Sweep(wnodes, Tail(order), AddOutputs(available, node), recorded)

\* the value of self.available_outputs after the call
_build_outputs_map(wnodes, wedges, params, outputs_map) ==
    LET topo_order == _get_topological_order(wnodes, wedges)
    IN IF topo_order.kind = "raise" THEN outputs_map
       ELSE Sweep(wnodes, topo_order.value, Range(params), outputs_map)

(***************************************************************************)
(* Error entries.  An entry is the f-string of the code, kept as its       *)
(* interpolated parts: the node or edge endpoint, the variable, and the    *)
(* set or list printed.                                                    *)
(***************************************************************************)
Error(type, node, name, set, list) ==
    [type |-> type, node |-> node, name |-> name, set |-> set, list |-> list]

\* node_ids.count(nid)
Count(ids, nid) == Cardinality({i \in 1..Len(ids) : ids[i] = nid})

\* the order in which a `for` loop visits the elements of the set S: the
\* interpreter's hash order, which lists each set in some order
IterSet(S, hash_order) == hash_order[S]

(***************************************************************************)
(* WorkflowValidator._validate_variable_references.                        *)
(***************************************************************************)
RECURSIVE VarErrors(_, _, _)
VarErrors(node_id, available, variables) ==
    IF variables = <<>> THEN <<>>
    ELSE (IF Head(variables) \notin available
          THEN <<Error("undefined_variable", node_id, Head(variables), {},
                       SortedSet(available))>>
          ELSE <<>>)
         \o VarErrors(node_id, available, Tail(variables))

\* self.available_outputs.get(node_id, set())
OutputsGet(outputs_map, node_id) ==
    IF node_id \in DOMAIN outputs_map THEN outputs_map[node_id] ELSE {}

RECURSIVE NodesVarErrors(_, _, _, _)
NodesVarErrors(wnodes, order, outputs_map, hash_order) ==
    IF order = <<>> THEN <<>>
    ELSE LET node_id == Head(order)
             node == NodeById(wnodes, node_id)
             available == OutputsGet(outputs_map, node_id)
             variables == IterSet(_extract_variables(node), hash_order)
         IN VarErrors(node_id, available, variables)
            \o NodesVarErrors(wnodes, Tail(order), outputs_map, hash_order)

_validate_variable_references(wnodes, wedges, outputs_map, hash_order) ==
    LET topo_order == _get_topological_order(wnodes, wedges)
    IN IF topo_order.kind = "raise"
       THEN IF topo_order.exc = "ValueError"
            THEN Ok(<<Error("cyclic_variables", <<>>, <<>>, {}, <<>>)>>)
            ELSE topo_order
       ELSE Ok(NodesVarErrors(wnodes, topo_order.value, outputs_map, hash_order))

(***************************************************************************)
(* WorkflowValidator._validate_node_configs.                               *)
(***************************************************************************)
NodeConfigErrors(node) ==
    IF node.type = "function_call"
    THEN IF Falsy(node.config.function_name)
         THEN <<Error("missing_function_name", node.id, <<>>, {}, <<>>)>>
         ELSE <<>>
    ELSE IF node.type = "llm_call"
    THEN IF Falsy(node.config.prompt_template)
         THEN <<Error("missing_prompt_template", node.id, <<>>, {}, <<>>)>>
         ELSE <<>>
    ELSE IF node.type = "visualizer"
    THEN IF Falsy(node.config.component_type)
         THEN <<Error("missing_component_type", node.id, <<>>, {}, <<>>)>>
         ELSE <<>>
    ELSE <<>>

RECURSIVE _validate_node_configs(_)
_validate_node_configs(wnodes) ==
    IF wnodes = <<>> THEN <<>>
    ELSE NodeConfigErrors(Head(wnodes)) \o _validate_node_configs(Tail(wnodes))

(***************************************************************************)
(* WorkflowValidator.validate.                                             *)
(***************************************************************************)
\* the entries of the edge loop (lines 40-44), in edge order
RECURSIVE EdgeErrors(_, _)
EdgeErrors(wedges, keyset) ==
    IF wedges = <<>> THEN <<>>
    ELSE (IF Head(wedges).source_node \notin keyset
          THEN <<Error("edge_source", Head(wedges).source_node, <<>>, {}, <<>>)>>
          ELSE <<>>)
         \o (IF Head(wedges).target_node \notin keyset
             THEN <<Error("edge_target", Head(wedges).target_node, <<>>, {}, <<>>)>>
             ELSE <<>>)
         \o EdgeErrors(Tail(wedges), keyset)

\* the entry of lines 34-37, if any
DuplicateErrors(wnodes) ==
    LET node_ids == NodeIdList(wnodes)
        duplicates == SelectSeq(node_ids, LAMBDA nid : Count(node_ids, nid) > 1)
    IN IF duplicates # <<>>
       THEN <<Error("duplicate_node_ids", <<>>, <<>>, Range(duplicates), <<>>)>>
       ELSE <<>>

\* a config check that a failed ordering skips
ConfigStepUnlessCycle(topo_order, wnodes) ==
    IF topo_order.kind = "raise" THEN <<>> ELSE _validate_node_configs(wnodes)

\* config_errors = self._validate_node_configs(), run whatever the outcome
\* of the ordering that validate() caught
ConfigStep(topo_order, wnodes) == _validate_node_configs(wnodes)

\* the outcome of validate() and the fields of the validator after it
validate(wnodes, wedges, params, outputs_map, hash_order) ==
    LET structural == DuplicateErrors(wnodes)
                      \o EdgeErrors(wedges, Range(NodeIdList(wnodes)))
        built == _build_graph(wnodes, wedges)
        topo_order == _get_topological_order(wnodes, wedges)
    IN IF topo_order.kind = "raise" /\ topo_order.exc # "ValueError"
       THEN [out |-> topo_order, graph |-> built, available_outputs |-> outputs_map]
       ELSE LET cycle == IF topo_order.kind = "raise"
                         THEN <<Error("cycle", <<>>, <<>>, {}, <<>>)>>
                         ELSE <<>>
                new_map == _build_outputs_map(wnodes, wedges, params, outputs_map)
                var_errors == _validate_variable_references(wnodes, wedges,
                                                            new_map, hash_order)
                config_errors == ConfigStep(topo_order, wnodes)
            IN IF var_errors.kind = "raise"
               THEN [out |-> var_errors, graph |-> built,
                     available_outputs |-> new_map]
               ELSE LET errors == structural \o cycle \o var_errors.value
                                  \o config_errors
                    IN [out |-> Ok([is_valid |-> Len(errors) = 0,
                                    errors |-> errors]),
                        graph |-> built,
                        available_outputs |-> new_map]

(***************************************************************************)
(* WorkflowValidator.get_topological_order.                                *)
(***************************************************************************)
get_topological_order(wnodes, wedges, g) ==
    [out |-> _get_topological_order(wnodes, wedges),
     graph |-> IF g = None THEN _build_graph(wnodes, wedges) ELSE g]

(***************************************************************************)
(* The documents explored: node ids, variable names, configs.              *)
(***************************************************************************)
SeqsUpTo(S, n) == UNION {[1..k -> S] : k \in 0..n}

Token(name) == <<"{", "{">> \o name \o <<"}", "}">>

DefaultConfig ==
    [function_name |-> None, function_params |-> PyDict(<<>>), model |-> None,
     prompt_template |-> None, temperature |-> None, component_type |-> None,
     template |-> None]

\* a function_call that names its function and references nothing
PlainProfile ==
    [type |-> "function_call",
     config |-> [DefaultConfig EXCEPT !.function_name = PyStr(<<"f">>)],
     outputs |-> <<>>]

\* function_params: {"k": "{{q}}", "j": "{{ x }}", "n": 1}; no declared output
CallProfile ==
    [type |-> "function_call",
     config |-> [DefaultConfig EXCEPT
                    !.function_name = PyStr(<<"f">>),
                    !.function_params = PyDict(<<
                        <<"k", PyStr(Token(<<"q">>))>>,
                        <<"j", PyStr(<<"{", "{", " ", "x", " ", "}", "}">>)>>,
                        <<"n", PyNum(1)>> >>)],
     outputs |-> <<>>]

\* prompt_template: "{{b}} {{r}}"; declared outputs r and q
AskProfile ==
    [type |-> "llm_call",
     config |-> [DefaultConfig EXCEPT
                    !.model = PyStr(<<"m">>),
                    !.prompt_template =
                        PyStr(Token(<<"b">>) \o <<" ">> \o Token(<<"r">>))],
     outputs |-> <<[name |-> <<"r">>, type |-> "string"],
                   [name |-> <<"q">>, type |-> "string"]>>]

\* template: {"s": [{"d": "{{enriched_b}}"}, "{{r}}"]}; no declared output
ShowProfile ==
    [type |-> "visualizer",
     config |-> [DefaultConfig EXCEPT
                    !.component_type = PyStr(<<"c">>),
                    !.template = PyDict(<< <<"s", PyList(<<
                        PyDict(<< <<"d", PyStr(Token(Enriched \o <<"_", "b">>))>> >>),
                        PyStr(Token(<<"r">>)) >>)>> >>)],
     outputs |-> <<>>]

Profiles == {CallProfile, AskProfile, ShowProfile}

NodeIds == {<<"b">>, Enrich \o <<"_", "b">>}

OrderNodeIds == {<<"a">>, <<"a", "b">>, <<"a", "_", "b">>}

\* first tokens of an id, and the tokens that may follow
FirstTokens == {Enrich, Summarize, Process, Transform, Enriched, <<"a">>, <<>>}

RestTokens == {Enrich, <<"a">>, <<>>}

InferNodeIds ==
    {Join(<<first>> \o rest, "_") :
        first \in FirstTokens, rest \in SeqsUpTo(RestTokens, MaxTokens - 1)}

Sentinel == <<"z">>

NodeModel(id, profile) ==
    [id |-> id, type |-> profile.type, config |-> profile.config,
     outputs |-> profile.outputs]

EdgeModel(source, target) == [source_node |-> source, target_node |-> target]

\* the orders a set of names can be iterated in
IterOrders(S) == {h \in [1..Cardinality(S) -> S] : Range(h) = S}

\* the sets of names validate() iterates over
VariableSets(wnodes) == {_extract_variables(wnodes[i]) : i \in 1..Len(wnodes)}

\* the hash orders of the interpreter: one iteration order for each set
HashOrders(sets) ==
    {h \in [sets -> UNION {IterOrders(S) : S \in sets}] :
        \A S \in sets : h[S] \in IterOrders(S)}

(***************************************************************************)
(* The state machine.                                                      *)
(***************************************************************************)
NoOutcome == [kind |-> "none", exc |-> "", value |-> <<>>]

EmptyDict == [k \in {} |-> {}]

\* no _get_topological_order() call is running
KahnIdle == [pc |-> "idle", in_degree |-> EmptyDict, queue |-> <<>>, result |-> <<>>]

\* no pipeline has been generated
NoPipeline == [pc |-> "none"]

\* the state of a validator just constructed on a document
Constructed ==
    /\ kahn = KahnIdle
    /\ pipeline = NoPipeline
    /\ graph = None
    /\ available_outputs = EmptyDict
    /\ ret = [op |-> "none", arg |-> <<>>, out |-> NoOutcome]
    /\ last_order = NoOutcome

\* small documents whose nodes differ in kind, config and declared outputs
Init ==
    /\ nodes \in SeqsUpTo({NodeModel(id, p) : id \in NodeIds, p \in Profiles},
                          MaxNodes) \ {<<>>}
    /\ edges \in SeqsUpTo({EdgeModel(s, t) : s \in NodeIds, t \in NodeIds},
                          MaxEdges)
    /\ parameters = << <<"q">> >>
    /\ Constructed

\* larger graphs of plain nodes
InitOrder ==
    /\ nodes \in SeqsUpTo({NodeModel(id, PlainProfile) : id \in OrderNodeIds},
                          MaxOrderNodes)
    /\ edges \in SeqsUpTo({EdgeModel(s, t) : s \in OrderNodeIds, t \in OrderNodeIds},
                          MaxOrderEdges)
    /\ parameters = <<>>
    /\ Constructed

\* a node with any id built from the tokens, with or without a declared
\* output, followed by a sentinel node
InitInfer ==
    /\ \E id \in InferNodeIds, profile \in {PlainProfile, AskProfile} :
          /\ nodes = <<NodeModel(id, profile), NodeModel(Sentinel, PlainProfile)>>
          /\ edges = <<EdgeModel(id, Sentinel)>>
    /\ parameters = << <<"q">> >>
    /\ Constructed

\* the get_topological_order() outcome that precedes the call being made
ShiftOrder == IF ret.op = "get_topological_order" THEN ret.out ELSE last_order

Validate ==
    \E hash_order \in HashOrders(VariableSets(nodes)) :
        LET r == validate(nodes, edges, parameters, available_outputs, hash_order)
        IN /\ ret' = [op |-> "validate", arg |-> <<>>, out |-> r.out]
           /\ graph' = r.graph
           /\ available_outputs' = r.available_outputs
           /\ last_order' = ShiftOrder
           /\ UNCHANGED <<nodes, edges, parameters, kahn, pipeline>>

GetTopologicalOrder ==
    LET r == get_topological_order(nodes, edges, graph)
    IN /\ ret' = [op |-> "get_topological_order", arg |-> <<>>, out |-> r.out]
       /\ graph' = r.graph
       /\ last_order' = ShiftOrder
       /\ UNCHANGED <<nodes, edges, parameters, available_outputs, kahn, pipeline>>

InferOutputName ==
    \E i \in 1..Len(nodes) :
        /\ ret' = [op |-> "_infer_output_name", arg |-> nodes[i].id,
                   out |-> Ok(_infer_output_name(nodes[i].id))]
        /\ last_order' = ShiftOrder
        /\ UNCHANGED <<nodes, edges, parameters, graph, available_outputs,
                       kahn, pipeline>>

(***************************************************************************)
(* _get_topological_order() step by step: the edge loop, one iteration of  *)
(* `while queue:` at a time, then the length test.                         *)
(***************************************************************************)
\* lines 195-204: the dicts, the edge loop and the initial queue
KahnBegin ==
    /\ kahn.pc = "idle"
    /\ LET missing == MissingKeys(EdgePairs(edges), Range(NodeIdList(nodes)))
           st == KahnInit(nodes, edges)
       IN IF missing # <<>>
          THEN /\ kahn' = [kahn EXCEPT !.pc = "done"]
               /\ ret' = [op |-> "_get_topological_order", arg |-> <<>>,
                          out |-> Raise("KeyError", Head(missing))]
          ELSE /\ kahn' = [pc |-> "loop", in_degree |-> st.in_degree,
                           queue |-> st.queue, result |-> st.result]
               /\ UNCHANGED ret
    /\ UNCHANGED <<nodes, edges, parameters, graph, available_outputs,
                   last_order, pipeline>>

\* lines 206-215: one iteration of the loop
KahnIterate ==
    /\ kahn.pc = "loop"
    /\ kahn.queue # <<>>
    /\ LET st == KahnStep([in_degree |-> kahn.in_degree, queue |-> kahn.queue,
                           result |-> kahn.result],
                          AdjList(nodes, edges))
       IN kahn' = [pc |-> "loop", in_degree |-> st.in_degree,
                   queue |-> st.queue, result |-> st.result]
    /\ UNCHANGED <<nodes, edges, parameters, graph, available_outputs, ret,
                   last_order, pipeline>>

\* lines 217-221: the loop has ended; the length test and the return
KahnEnd ==
    /\ kahn.pc = "loop"
    /\ kahn.queue = <<>>
    /\ kahn' = [kahn EXCEPT !.pc = "done"]
    /\ ret' = [op |-> "_get_topological_order", arg |-> <<>>,
               out |-> IF Len(kahn.result) # Len(nodes)
                       THEN Raise("ValueError", <<>>)
                       ELSE Ok(kahn.result)]
    /\ UNCHANGED <<nodes, edges, parameters, graph, available_outputs,
                   last_order, pipeline>>

Next == Validate

NextOrder == GetTopologicalOrder

NextInfer == Validate \/ InferOutputName

\* validation of small documents with varied nodes
Spec == Init /\ [][Next]_vars

\* ordering of larger graphs
SpecOrder == InitOrder /\ [][NextOrder]_vars

\* output-name inference over node ids
SpecInfer == InitInfer /\ [][NextInfer]_vars

\* graphs of plain nodes, no two of them sharing an id
InitKahn ==
    /\ nodes \in {q \in SeqsUpTo({NodeModel(id, PlainProfile) : id \in OrderNodeIds},
                                 MaxKahnNodes) :
                     \A i, j \in 1..Len(q) : q[i].id = q[j].id => i = j}
    /\ edges \in SeqsUpTo({EdgeModel(s, t) : s \in OrderNodeIds, t \in OrderNodeIds},
                          MaxKahnEdges)
    /\ parameters = <<>>
    /\ Constructed

NextKahn == KahnBegin \/ KahnIterate \/ KahnEnd

\* one ordering call, step by step
SpecKahn == InitKahn /\ [][NextKahn]_vars

(***************************************************************************)
(* Graph notions the properties are stated with.                           *)
(***************************************************************************)
IdSet == Range(NodeIdList(nodes))

EdgeSet == {<<edges[i].source_node, edges[i].target_node>> : i \in 1..Len(edges)}

\* no two nodes of the document share an id
UniqueIds == \A i, j \in 1..Len(nodes) : nodes[i].id = nodes[j].id => i = j

\* every edge endpoint names a node of the document
EndpointsExist == \A e \in EdgeSet : e[1] \in IdSet /\ e[2] \in IdSet

RECURSIVE TransitiveClosure(_)
TransitiveClosure(R) ==
    LET step == R \cup {<<x[1][1], x[2][2]>> :
                          x \in {y \in R \X R : y[1][2] = y[2][1]}}
    IN IF step = R THEN R ELSE TransitiveClosure(step)

\* the edges contain a cycle through nodes of the document (a self-loop
\* is one)
HasCycle ==
    \E p \in TransitiveClosure({e \in EdgeSet : e[1] \in IdSet /\ e[2] \in IdSet}) :
        p[1] = p[2]

\* source comes strictly before target in the sequence
Precedes(order, source, target) ==
    \E i, j \in 1..Len(order) : i < j /\ order[i] = source /\ order[j] = target

\* the sequence with the entries at i and j exchanged
Swap(q, i, j) == [k \in 1..Len(q) |-> IF k = i THEN q[j] ELSE IF k = j THEN q[i] ELSE q[k]]

\* two outcomes agree: both return the same sequence, or both raise the
\* same exception
SameOutcome(r1, r2) ==
    /\ r1.kind = r2.kind
    /\ r1.exc = r2.exc
    /\ r1.kind = "ok" => r1.value = r2.value

CalledOrder == ret.op = "get_topological_order"

(***************************************************************************)
(* C1: for an acyclic workflow graph (unique node ids, every edge endpoint *)
(* an existing node) get_topological_order() returns a sequence in which   *)
(* the source of every edge comes strictly before its target, and a        *)
(* repeated call on the same graph returns the identical sequence.         *)
(***************************************************************************)
C1_OrderRespectsEdges ==
    (CalledOrder /\ UniqueIds /\ EndpointsExist /\ ~HasCycle) =>
        /\ ret.out.kind = "ok"
        /\ \A e \in EdgeSet : Precedes(ret.out.value, e[1], e[2])
        /\ last_order.kind # "none" => ret.out = last_order

\* a second call on a three-node graph with fan-in, returned in an order
\* that is not the document's
C1_Witness ==
    /\ CalledOrder /\ UniqueIds /\ EndpointsExist /\ ~HasCycle
    /\ last_order.kind = "ok"
    /\ Len(nodes) = 3
    /\ Cardinality(EdgeSet) = 2
    /\ \E e, f \in EdgeSet : e[1] # f[1] /\ e[2] = f[2]
    /\ ret.out.value # NodeIdList(nodes)

(***************************************************************************)
(* C2: the order depends on the graph, not on the order of the document:   *)
(* exchanging two neighbouring entries of workflow.nodes or of             *)
(* workflow.edges leaves the outcome of _get_topological_order()           *)
(* unchanged.  Every reordering of a list is a composition of such         *)
(* exchanges, and every document up to the bounds is explored, so the      *)
(* outcome is the same for every reordering of the two lists.              *)
(***************************************************************************)
C2_OrderIgnoresDocumentOrder ==
    CalledOrder =>
        /\ \A i \in 1..(Len(nodes) - 1) :
              SameOutcome(_get_topological_order(Swap(nodes, i, i + 1), edges),
                          ret.out)
        /\ \A i \in 1..(Len(edges) - 1) :
              SameOutcome(_get_topological_order(nodes, Swap(edges, i, i + 1)),
                          ret.out)

\* an order was returned for three distinct nodes that the document lists
\* in another order, with two nodes free of incoming edges
C2_Witness ==
    /\ CalledOrder /\ ret.out.kind = "ok"
    /\ Len(nodes) = 3 /\ UniqueIds
    /\ Len(edges) = 1
    /\ ret.out.value # NodeIdList(nodes)

(***************************************************************************)
(* C3: when every edge endpoint exists, _get_topological_order() raises    *)
(* the cycle error exactly when the edge set contains a cycle, whatever    *)
(* the node list.                                                          *)
(***************************************************************************)
C3_CycleErrorIffCycle ==
    (CalledOrder /\ EndpointsExist) =>
        ((ret.out.kind = "raise" /\ ret.out.exc = "ValueError") <=> HasCycle)

(***************************************************************************)
(* Notions the properties of validate() are stated with.                   *)
(***************************************************************************)
CalledValidate == ret.op = "validate"

\* validate() returned its (is_valid, errors) pair
Returned == ret.out.kind = "ok"

\* the entries of the returned report with the given type
Entries(type) ==
    {k \in 1..Len(ret.out.value.errors) : ret.out.value.errors[k].type = type}

\* the endpoints of the edge list that name no node, one per occurrence
DanglingEndpoints ==
    {<<i, side>> \in (1..Len(edges)) \X {"source", "target"} :
        (IF side = "source" THEN edges[i].source_node ELSE edges[i].target_node)
            \notin IdSet}

\* the edges both of whose endpoints name a node
SoundEdges ==
    SelectSeq(edges, LAMBDA e : e.source_node \in IdSet /\ e.target_node \in IdSet)

\* the ids that more than one node of the document carries
SharedIds == {id \in IdSet : Count(NodeIdList(nodes), id) > 1}

(***************************************************************************)
(* C4: for a graph whose edge set contains a cycle, ordering fails with    *)
(* the cycle error, validate() returns is_valid = False with a cycle entry *)
(* in the error list, and available_outputs is empty after validate().     *)
(***************************************************************************)
C4_CycleRejectedWithoutScopes ==
    (CalledValidate /\ HasCycle) =>
        /\ _get_topological_order(nodes, edges).kind = "raise"
        /\ _get_topological_order(nodes, edges).exc = "ValueError"
        /\ Returned
        /\ ret.out.value.is_valid = FALSE
        /\ Entries("cycle") # {}
        /\ available_outputs = EmptyDict

(***************************************************************************)
(* C5: validate() never raises: for every document it returns a            *)
(* (is_valid, errors) pair in which the findings are collected.            *)
(***************************************************************************)
C5_ValidateNeverRaises ==
    CalledValidate =>
        /\ Returned
        /\ ~UniqueIds => Entries("duplicate_node_ids") # {}
        /\ ~EndpointsExist =>
              Entries("edge_source") \cup Entries("edge_target") # {}
        /\ ret.out.value.is_valid = (Len(ret.out.value.errors) = 0)

(***************************************************************************)
(* C6: an edge that names a nonexistent node produces one entry per        *)
(* dangling endpoint in the report validate() returns, and the scopes are  *)
(* computed over the remaining edges as if the dangling edge were absent.  *)
(***************************************************************************)
C6_DanglingEdgeReportedAndSkipped ==
    (CalledValidate /\ ~EndpointsExist) =>
        /\ Returned
        /\ Cardinality(Entries("edge_source") \cup Entries("edge_target"))
              = Cardinality(DanglingEndpoints)
        /\ available_outputs =
              _build_outputs_map(nodes, SoundEdges, parameters, EmptyDict)

(***************************************************************************)
(* C7: when two or more nodes share an id, validate() does not crash and   *)
(* its report holds exactly one duplicate-id entry, which lists the set of *)
(* duplicated ids.                                                         *)
(***************************************************************************)
C7_DuplicateIdsReportedOnce ==
    (CalledValidate /\ ~UniqueIds) =>
        /\ Returned
        /\ Cardinality(Entries("duplicate_node_ids")) = 1
        /\ \A k \in Entries("duplicate_node_ids") :
              ret.out.value.errors[k].set = SharedIds

(***************************************************************************)
(* C8: the scope recorded for a node is exactly the parameter names united *)
(* with the output names (declared, else inferred) of every node strictly  *)
(* earlier in the execution order, edge or no edge; it holds none of the   *)
(* node's own outputs unless an earlier node or a parameter supplies the   *)
(* same name.                                                              *)
(***************************************************************************)
\* the names a node supplies: its declared output names, else the name
\* inferred from its id
DeclaredElseInferred(node) ==
    IF Len(node.outputs) > 0
    THEN {node.outputs[i].name : i \in 1..Len(node.outputs)}
    ELSE {_infer_output_name(node.id)}

\* the ids strictly before id in the execution order
EarlierIds(id) ==
    LET order == _get_topological_order(nodes, edges).value
        k == CHOOSE k \in 1..Len(order) : order[k] = id
    IN {order[j] : j \in 1..(k - 1)}

\* the names visible before the node with this id runs
EarlierNames(id) ==
    Range(parameters)
    \cup UNION {DeclaredElseInferred(NodeById(nodes, e)) : e \in EarlierIds(id)}

C8_ScopeIsEarlierOutputs ==
    \A id \in DOMAIN available_outputs :
        /\ _get_topological_order(nodes, edges).kind = "ok"
        /\ available_outputs[id] = EarlierNames(id)
        /\ \A own \in DeclaredElseInferred(NodeById(nodes, id)) :
              own \in available_outputs[id] => own \in EarlierNames(id)

\* two nodes without an edge: the later one sees the earlier one's output,
\* and of its own two outputs only the one a parameter also supplies
C8_Witness ==
    /\ edges = <<>>
    /\ Len(nodes) = 2
    /\ \E id \in DOMAIN available_outputs :
          /\ EarlierIds(id) # {}
          /\ available_outputs[id] # Range(parameters)
          /\ \E own \in DeclaredElseInferred(NodeById(nodes, id)) :
                own \notin available_outputs[id]
          /\ \E own \in DeclaredElseInferred(NodeById(nodes, id)) :
                own \in available_outputs[id]

(***************************************************************************)
(* C10: for an acyclic graph validate() emits a variable-scope error for a *)
(* node and a name if and only if a {{name}} token occurs in a string leaf *)
(* of the node's config and the name is not in the node's scope; the error *)
(* lists the sorted scope, and there is one error per (node, name) pair.   *)
(***************************************************************************)
\* the string leaves of a config value, at any depth of mappings and
\* sequences
RECURSIVE StringLeaves(_)
StringLeaves(obj) ==
    IF obj.t = "str" THEN {obj.v}
    ELSE IF obj.t = "dict"
    THEN UNION {StringLeaves(obj.v[i][2]) : i \in 1..Len(obj.v)}
    ELSE IF obj.t = "list"
    THEN UNION {StringLeaves(obj.v[i]) : i \in 1..Len(obj.v)}
    ELSE {}

\* the token {{name}} occurs in the string
TokenOccurs(name, str) ==
    LET token == <<"{", "{">> \o name \o <<"}", "}">>
    IN \E i \in 1..Len(str) :
          /\ i + Len(token) - 1 <= Len(str)
          /\ SubSeq(str, i, i + Len(token) - 1) = token

\* a {{name}} token occurs in some string leaf of the node's config
References(node, name) ==
    \E leaf \in StringLeaves(model_dump(node.config)) : TokenOccurs(name, leaf)

\* the names a report can be about
ReferencedNames ==
    {<<"q">>, <<"x">>, <<"b">>, <<"r">>, Enriched \o <<"_", "b">>}

\* the variable-scope entries of the report for this node id and name
ScopeErrors(id, name) ==
    {k \in Entries("undefined_variable") :
        ret.out.value.errors[k].node = id /\ ret.out.value.errors[k].name = name}

C10_ScopeErrorIffUndefined ==
    (CalledValidate /\ ~HasCycle) =>
        /\ Returned
        /\ \A k \in Entries("undefined_variable") :
              /\ ret.out.value.errors[k].node \in IdSet
              /\ ret.out.value.errors[k].name \in ReferencedNames
        /\ \A i \in 1..Len(nodes) : \A name \in ReferencedNames :
              LET scope == OutputsGet(available_outputs, nodes[i].id)
              IN /\ ScopeErrors(nodes[i].id, name) # {}
                      <=> (References(nodes[i], name) /\ name \notin scope)
                 /\ Cardinality(ScopeErrors(nodes[i].id, name)) <= 1
                 /\ \A k \in ScopeErrors(nodes[i].id, name) :
                       ret.out.value.errors[k].list = SortedSet(scope)

(***************************************************************************)
(* C9: _infer_output_name(node_id) returns the id itself when the id is a  *)
(* single token or its first underscore-delimited token is not one of      *)
(* enrich/summarize/process/transform; otherwise it returns the id with    *)
(* only the first token replaced by its past form, the remaining tokens    *)
(* kept and rejoined with underscores.  A node with declared outputs       *)
(* contributes exactly its declared names and no inferred name.            *)
(***************************************************************************)
PastTense ==
    (Enrich :> Enriched) @@ (Summarize :> Summarized)
        @@ (Process :> Processed) @@ (Transform :> Transformed)

\* the underscore-delimited tokens of an id
TokensOf(id) ==
    CHOOSE toks \in SeqsUpTo(FirstTokens \cup RestTokens \cup {Sentinel},
                              MaxTokens) \ {<<>>} :
        Join(toks, "_") = id

\* the name the rule gives an id
InferredName(id) ==
    LET toks == TokensOf(id)
    IN IF Len(toks) = 1 \/ toks[1] \notin DOMAIN PastTense
       THEN id
       ELSE Join(<<PastTense[toks[1]]>> \o Tail(toks), "_")

EnrichResults == Enrich \o <<"_", "r", "e", "s", "u", "l", "t", "s">>

SummarizeFindings == Summarize \o <<"_", "f", "i", "n", "d", "i", "n", "g", "s">>

MaxConfigNodes == 2

NodeKinds == {"function_call", "llm_call", "visualizer", "user_approval"}

\* the values a required field takes: absent, empty, present
FieldValues == {None, PyStr(<<>>), PyStr(<<"f">>)}

\* a node of this kind whose required field has this value; a node lacking
\* the field references the name x, which nothing supplies, the others the
\* parameter q
ConfigProfile(kind, value) ==
    LET ref == IF value = None THEN <<"x">> ELSE <<"q">>
        base == [DefaultConfig EXCEPT
                    !.function_params = PyDict(<< <<"k", PyStr(Token(ref))>> >>)]
    IN [type |-> kind,
        config |-> IF kind = "function_call"
                   THEN [base EXCEPT !.function_name = value]
                   ELSE IF kind = "llm_call"
                   THEN [base EXCEPT !.prompt_template = value]
                   ELSE IF kind = "visualizer"
                   THEN [base EXCEPT !.component_type = value]
                   ELSE base,
        outputs |-> <<>>]

ConfigProfiles ==
    {ConfigProfile(kind, value) : kind \in NodeKinds \ {"user_approval"},
                                  value \in FieldValues}
    \cup {ConfigProfile("user_approval", None)}

InitConfig ==
    /\ nodes \in SeqsUpTo({NodeModel(id, p) : id \in NodeIds, p \in ConfigProfiles},
                          MaxConfigNodes) \ {<<>>}
    /\ edges \in {<<>>} \cup {<<EdgeModel(s, t)>> : s \in NodeIds, t \in NodeIds}
    /\ parameters = << <<"q">> >>
    /\ Constructed

NextConfig == Validate

\* validation of documents with incomplete configs
SpecConfig == InitConfig /\ [][NextConfig]_vars

(***************************************************************************)
(* C11: validate() reports a config error for a node exactly when it is a  *)
(* function_call whose function_name is missing or empty, an llm_call      *)
(* whose prompt_template is missing or empty, or a visualizer whose        *)
(* component_type is missing or empty; a user_approval node never produces *)
(* one; and the config errors are reported alongside the scope errors of   *)
(* the same run.                                                           *)
(***************************************************************************)
ConfigErrorTypes ==
    {"missing_function_name", "missing_prompt_template", "missing_component_type"}

\* the node lacks the field its kind requires, and this is the entry for it
Lacks(node, type) ==
    \/ /\ type = "missing_function_name"
       /\ node.type = "function_call"
       /\ node.config.function_name \in {None, PyStr(<<>>)}
    \/ /\ type = "missing_prompt_template"
       /\ node.type = "llm_call"
       /\ node.config.prompt_template \in {None, PyStr(<<>>)}
    \/ /\ type = "missing_component_type"
       /\ node.type = "visualizer"
       /\ node.config.component_type \in {None, PyStr(<<>>)}

\* the entries of this type the report holds for this node id
ConfigEntries(id, type) ==
    {k \in Entries(type) : ret.out.value.errors[k].node = id}

C11_ConfigErrorsPerKind ==
    CalledValidate =>
        /\ Returned
        /\ \A id \in IdSet, type \in ConfigErrorTypes :
              Cardinality(ConfigEntries(id, type))
                  = Cardinality({i \in 1..Len(nodes) :
                                    nodes[i].id = id /\ Lacks(nodes[i], type)})
        /\ \A i \in 1..Len(nodes), name \in ReferencedNames :
              (/\ _get_topological_order(nodes, edges).kind = "ok"
               /\ References(nodes[i], name)
               /\ name \notin OutputsGet(available_outputs, nodes[i].id))
                  => ScopeErrors(nodes[i].id, name) # {}

(***************************************************************************)
(* C18: a detected cycle short-circuits steps 4 and 5 of validate(): when  *)
(* ordering fails with the cycle error, the returned report contains the   *)
(* cycle entry (and any duplicate-id entries) but no variable-scope errors *)
(* and no per-kind required-field errors.                                  *)
(***************************************************************************)
\* ordering fails with the cycle error
OrderingFailsWithCycle ==
    /\ _get_topological_order(nodes, edges).kind = "raise"
    /\ _get_topological_order(nodes, edges).exc = "ValueError"

\* the required-field entries of the report
AllConfigEntries == UNION {Entries(type) : type \in ConfigErrorTypes}

C18_CycleSkipsScopeAndConfigChecks ==
    (CalledValidate /\ OrderingFailsWithCycle) =>
        /\ Returned
        /\ Entries("cycle") # {}
        /\ ~UniqueIds => Entries("duplicate_node_ids") # {}
        /\ Entries("undefined_variable") = {}
        /\ AllConfigEntries = {}

(***************************************************************************)
(* C18 as amended: a detected cycle short-circuits step 4 only: when       *)
(* ordering fails with the cycle error, the returned report contains the   *)
(* cycle entry (and any duplicate-id entries) and no variable-scope        *)
(* errors, while the per-kind required-field check still runs and its      *)
(* errors are in the report.                                               *)
(***************************************************************************)
C18_CycleSkipsScopeChecksOnly ==
    (CalledValidate /\ OrderingFailsWithCycle) =>
        /\ Returned
        /\ Entries("cycle") # {}
        /\ ~UniqueIds => Entries("duplicate_node_ids") # {}
        /\ Entries("undefined_variable") = {}
        /\ \A id \in IdSet, type \in ConfigErrorTypes :
              Cardinality(ConfigEntries(id, type))
                  = Cardinality({i \in 1..Len(nodes) :
                                    nodes[i].id = id /\ Lacks(nodes[i], type)})

\* a self-loop on a node that lacks its required field and references a
\* name nothing supplies: the config entry is there, the scope entry is not
C18_Witness ==
    /\ CalledValidate
    /\ HasCycle
    /\ OrderingFailsWithCycle
    /\ Returned
    /\ \E i \in 1..Len(nodes) :
          /\ References(nodes[i], <<"x">>)
          /\ \E type \in ConfigErrorTypes : ConfigEntries(nodes[i].id, type) # {}

(***************************************************************************)
(* C19: the scope map is monotonically non-decreasing along the execution  *)
(* order: for two nodes a and b with a before b in the order,              *)
(* available_outputs[a] is a subset of available_outputs[b].               *)
(***************************************************************************)
\* the position of a node id in the execution order
PositionOf(id) ==
    LET order == _get_topological_order(nodes, edges).value
    IN CHOOSE k \in 1..Len(order) : order[k] = id

C19_ScopesGrowAlongOrder ==
    \A a \in DOMAIN available_outputs, b \in DOMAIN available_outputs :
        PositionOf(a) < PositionOf(b)
            => available_outputs[a] \subseteq available_outputs[b]

\* the later of two nodes sees strictly more than the earlier one
C19_Witness ==
    \E a \in DOMAIN available_outputs, b \in DOMAIN available_outputs :
        /\ PositionOf(a) < PositionOf(b)
        /\ available_outputs[a] # available_outputs[b]
        /\ available_outputs[a] # {}

(***************************************************************************)
(* C17: at every step of _get_topological_order() the node appended to the *)
(* result is the lexicographically smallest id among all nodes whose       *)
(* remaining in-degree is zero and that have not yet been appended (not    *)
(* the earliest inserted one).                                             *)
(***************************************************************************)
\* the ids not yet in the result all of whose incoming edges come from ids
\* in the result
ReadyIds(result) ==
    {id \in IdSet \ Range(result) :
        \A e \in EdgeSet : e[2] = id => e[1] \in Range(result)}

\* the smallest of a set of ids
Smallest(S) == CHOOSE id \in S : \A other \in S \ {id} : StrLess(id, other)

\* the id the last iteration appended
Appended(result) == result[Len(result)]

C17_AppendsSmallestReady ==
    [][(kahn.pc = "loop" /\ kahn'.pc = "loop")
          => /\ Len(kahn'.result) = Len(kahn.result) + 1
             /\ SubSeq(kahn'.result, 1, Len(kahn.result)) = kahn.result
             /\ Appended(kahn'.result) = Smallest(ReadyIds(kahn.result))]_vars

\* the loop has just appended an id while another ready id stood earlier
\* in the document
C17_Witness ==
    /\ kahn.pc = "loop"
    /\ Len(kahn.result) > 0
    /\ LET before == SubSeq(kahn.result, 1, Len(kahn.result) - 1)
           ids == NodeIdList(nodes)
       IN \E i, j \in 1..Len(ids) :
             /\ i < j
             /\ ids[j] = Appended(kahn.result)
             /\ ids[i] \in ReadyIds(before)
             /\ EdgeSet # {}

(***************************************************************************)
(* The generated pipeline (output/.../graph.py): run-time values.  A value *)
(* of the state map is a str, an int, a list, a dict or None, in the       *)
(* records built by PyStr, PyNum, PyList, PyDict and None; the state map   *)
(* itself is a dict keyed by variable name, in insertion order.            *)
(***************************************************************************)
\* list(d.keys())
Keys(d) == [i \in 1..Len(d.v) |-> d.v[i][1]]

\* key in d
HasKey(d, key) == \E i \in 1..Len(d.v) : d.v[i][1] = key

\* d[key], for a key of d
Item(d, key) == d.v[CHOOSE i \in 1..Len(d.v) : d.v[i][1] = key][2]

\* d.get(key)
Get(d, key) == IF HasKey(d, key) THEN Item(d, key) ELSE None

\* d[key] = value: an existing key keeps its place, a new one goes last
SetItem(d, key, value) ==
    IF HasKey(d, key)
    THEN PyDict([i \in 1..Len(d.v) |->
                    IF d.v[i][1] = key THEN <<key, value>> ELSE d.v[i]])
    ELSE PyDict(Append(d.v, <<key, value>>))

\* s.replace(old, new) for a one-character old
RECURSIVE Replace(_, _, _)
Replace(s, old, new) ==
    IF s = <<>> THEN <<>>
    ELSE (IF Head(s) = old THEN new ELSE <<Head(s)>>) \o Replace(Tail(s), old, new)

\* the decimal digits of a natural number
RECURSIVE Digits(_)
Digits(n) ==
    LET digit == <<"0", "1", "2", "3", "4", "5", "6", "7", "8", "9">>[(n % 10) + 1]
    IN IF n < 10 THEN <<digit>> ELSE Digits(n \div 10) \o <<digit>>

\* str(n) == json.dumps(n) for an int
IntText(n) == IF n < 0 THEN <<"-">> \o Digits(-n) ELSE Digits(n)

\* the body of a JSON string literal as json.dumps(..., ensure_ascii=False)
\* writes it
JsonStringBody(s) ==
    Replace(Replace(Replace(Replace(Replace(s,
        "\\", <<"\\", "\\">>), "\"", <<"\\", "\"">>), "\n", <<"\\", "n">>),
        "\r", <<"\\", "r">>), "\t", <<"\\", "t">>)

\* sep.join of texts
RECURSIVE JoinTexts(_, _)
JoinTexts(texts, sep) ==
    IF texts = <<>> THEN <<>>
    ELSE IF Len(texts) = 1 THEN Head(texts)
    ELSE Head(texts) \o sep \o JoinTexts(Tail(texts), sep)

\* json.dumps(value): items separated by ", ", keys from values by ": "
RECURSIVE JsonDumps(_)
JsonDumps(value) ==
    IF value.t = "str" THEN <<"\"">> \o JsonStringBody(value.v) \o <<"\"">>
    ELSE IF value.t = "num" THEN IntText(value.v[1])
    ELSE IF value.t = "none" THEN <<"n", "u", "l", "l">>
    ELSE IF value.t = "list"
    THEN <<"[">>
         \o JoinTexts([i \in 1..Len(value.v) |-> JsonDumps(value.v[i])], <<",", " ">>)
         \o <<"]">>
    ELSE <<"{">>
         \o JoinTexts([i \in 1..Len(value.v) |->
                          <<"\"">> \o JsonStringBody(value.v[i][1]) \o <<"\"">>
                          \o <<":", " ">> \o JsonDumps(value.v[i][2])],
                      <<",", " ">>)
         \o <<"}">>

\* repr(s) for a str: single quotes unless s holds a single quote and no
\* double quote
StrRepr(s) ==
    LET quote == IF "'" \in Range(s) /\ "\"" \notin Range(s) THEN "\"" ELSE "'"
        body == Replace(Replace(Replace(Replace(Replace(s,
                    "\\", <<"\\", "\\">>), quote, <<"\\", quote>>),
                    "\n", <<"\\", "n">>), "\r", <<"\\", "r">>), "\t", <<"\\", "t">>)
    IN <<quote>> \o body \o <<quote>>

\* repr(value)
RECURSIVE PyRepr(_)
PyRepr(value) ==
    IF value.t = "str" THEN StrRepr(value.v)
    ELSE IF value.t = "num" THEN IntText(value.v[1])
    ELSE IF value.t = "none" THEN <<"N", "o", "n", "e">>
    ELSE IF value.t = "list"
    THEN <<"[">>
         \o JoinTexts([i \in 1..Len(value.v) |-> PyRepr(value.v[i])], <<",", " ">>)
         \o <<"]">>
    ELSE <<"{">>
         \o JoinTexts([i \in 1..Len(value.v) |->
                          StrRepr(value.v[i][1]) \o <<":", " ">> \o PyRepr(value.v[i][2])],
                      <<",", " ">>)
         \o <<"}">>

\* str(value): a str is its own text, everything else its repr
PyStrOf(value) == IF value.t = "str" THEN value.v ELSE PyRepr(value)

(***************************************************************************)
(* The two resolvers of the generated pipeline.                            *)
(***************************************************************************)
\* ValueError(f"Variable '{var_name}' not found in state. Available: ...")
NotFound(var_name, state) ==
    Raise("ValueError", [name |-> var_name, available |-> Keys(state)])

\* line 195: the chain of replace calls, backslash first
EscapeChain(value_str) ==
    Replace(Replace(Replace(Replace(Replace(value_str,
        "\\", <<"\\", "\\">>), "\"", <<"\\", "\"">>), "\n", <<"\\", "n">>),
        "\r", <<"\\", "r">>), "\t", <<"\\", "t">>)

\* lines 186-196: the text a bound value is replaced by in a template
SafeText(value) ==
    EscapeChain(IF value.t \in {"dict", "list", "num"} THEN JsonDumps(value)
                ELSE PyStrOf(value))

\* the text the replacer of this mode returns for a value
ReplacerText(mode, value) ==
    IF mode = "safe" THEN SafeText(value) ELSE PyStrOf(value)

\* re.sub(pattern, replacer, s) from position i on; a replacer raises when
\* state.get(var_name) is None
\* the text so far followed by the outcome of the rest of the scan
Followed(text, rest) ==
    IF rest.kind = "raise" THEN rest ELSE Ok(text \o rest.value)

\* the replacer called on the match of var_name, then the rest of the scan
Replaced(var_name, value, state, mode, rest) ==
    IF value = None THEN NotFound(var_name, state)
    ELSE Followed(ReplacerText(mode, value), rest)

RECURSIVE ReSub(_, _, _, _)
ReSub(s, i, state, mode) ==
    IF i > Len(s) THEN Ok(<<>>)
    ELSE IF MatchAt(s, i) = 0
    THEN Followed(<<s[i]>>, ReSub(s, i + 1, state, mode))
    ELSE Replaced(SubSeq(s, i + 2, i + 1 + MatchAt(s, i)),
                  Get(state, SubSeq(s, i + 2, i + 1 + MatchAt(s, i))),
                  state, mode,
                  ReSub(s, i + MatchAt(s, i) + 4, state, mode))

_resolve_template(template, state) == ReSub(template, 1, state, "safe")

\* re.fullmatch(r'\{\{(\w+)\}\}', template_str)
FullMatch(template_str) ==
    Len(template_str) > 4 /\ MatchAt(template_str, 1) = Len(template_str) - 4

\* a resolver that hands back the text of the stored value
RawObjectAsText(state, var_name) == PyStr(PyStrOf(Item(state, var_name)))

\* return state[var_name]: the stored object itself
RawObject(state, var_name) == Item(state, var_name)

\* var_name not in state
Unbound(var_name, state) == ~HasKey(state, var_name)

\* the str that re.sub returned, unless a replacer raised
AsStr(text) == IF text.kind = "raise" THEN text ELSE Ok(PyStr(text.value))

\* lines 212-218: the whole string is one token
Structured(var_name, state) ==
    IF Unbound(var_name, state)
    THEN NotFound(var_name, state)
    ELSE Ok(RawObject(state, var_name))

_resolve_param_variable(template_str, state) ==
    IF ~FullMatch(template_str)
    THEN AsStr(ReSub(template_str, 1, state, "plain"))
    ELSE Structured(SubSeq(template_str, 3, Len(template_str) - 2), state)

\* isinstance(value, str) and '{{' in value
HoldsBraces(value) ==
    /\ value.t = "str"
    /\ \E i \in 1..(Len(value.v) - 1) : value.v[i] = "{" /\ value.v[i + 1] = "{"

\* the list comprehension of lines 242-247
\* one element of the comprehension
ResolveItem(item, state) ==
    IF HoldsBraces(item) THEN _resolve_param_variable(item.v, state)
    ELSE Ok(item)

\* an element put before the elements after it, unless one of them raised
Cons(first, rest) ==
    IF first.kind = "raise" THEN first
    ELSE IF rest.kind = "raise" THEN rest
    ELSE Ok(<<first.value>> \o rest.value)

RECURSIVE ResolveItems(_, _)
ResolveItems(items, state) ==
    IF items = <<>> THEN Ok(<<>>)
    ELSE Cons(ResolveItem(Head(items), state), ResolveItems(Tail(items), state))

\* resolved[key] for one item of params
AsList(items) == IF items.kind = "raise" THEN items ELSE Ok(PyList(items.value))

ResolveValue(value, state) ==
    IF HoldsBraces(value) THEN _resolve_param_variable(value.v, state)
    ELSE IF value.t = "list" THEN AsList(ResolveItems(value.v, state))
    ELSE Ok(value)

\* the loop over params.items()
\* resolved[key] = ...: the entry put before the entries after it
ConsEntry(key, first, rest) ==
    IF first.kind = "raise" THEN first
    ELSE IF rest.kind = "raise" THEN rest
    ELSE Ok(<< <<key, first.value>> >> \o rest.value)

RECURSIVE ResolveEntries(_, _)
ResolveEntries(entries, state) ==
    IF entries = <<>> THEN Ok(<<>>)
    ELSE ConsEntry(Head(entries)[1], ResolveValue(Head(entries)[2], state),
                   ResolveEntries(Tail(entries), state))

AsDict(entries) == IF entries.kind = "raise" THEN entries ELSE Ok(PyDict(entries.value))

_resolve_params(params, state) == AsDict(ResolveEntries(params.v, state))

(***************************************************************************)
(* Calls of the resolvers on a pipeline whose state map holds a few        *)
(* values.                                                                 *)
(***************************************************************************)
\* a pipeline in the middle of a run, its state map being this one
Running(state) ==
    [pc |-> "running", required |-> <<>>, order |-> <<>>, start |-> None,
     state |-> state, active |-> {}, log |-> <<>>, at |-> <<>>,
     out |-> NoOutcome]

ResolveNames == {<<"a">>, <<"n">>}

\* the values a state map holds
StoredValues ==
    {None, PyStr(<<"v", "\"">>), PyNum(7),
     PyList(<<PyStr(<<"v">>), PyNum(7)>>),
     PyDict(<< <<<<"k">>, PyStr(<<"v">>)>> >>)}

\* state maps: up to MaxStateKeys distinct names, in any insertion order
StateMaps ==
    {PyDict(items) : items \in
        {q \in SeqsUpTo(ResolveNames \X StoredValues, MaxStateKeys) :
            \A i, j \in 1..Len(q) : q[i][1] = q[j][1] => i = j}}

\* the strings and numbers a parameter or a list element can be: a whole
\* token, a token inside other text, braces that are no token, plain text
ParamScalars ==
    {PyStr(Token(name)) : name \in ResolveNames}
    \cup {PyStr(<<"z", " ">> \o Token(<<"a">>) \o <<"!">>),
          PyStr(<<"{", "{", " ", "a", " ", "}", "}">>),
          PyStr(<<"z">>),
          PyNum(1)}

\* the values of a parameter: a scalar, a list of scalars, a nested dict
ParamValues ==
    ParamScalars
    \cup {PyList(items) : items \in SeqsUpTo(ParamScalars, MaxItems)}
    \cup {PyDict(<< <<<<"i">>, PyStr(Token(<<"a">>))>> >>)}

\* the dicts _resolve_params is called with
ParamDicts ==
    {PyDict(<< <<<<"k">>, first>>, <<<<"j">>, second>> >>) :
        first \in ParamValues,
        second \in {PyStr(Token(<<"a">>)), PyStr(<<"z">>), PyNum(1)}}

\* a pipeline in the middle of a run and the argument of the call about to
\* be made on it
InitResolve ==
    /\ nodes = <<>>
    /\ edges = <<>>
    /\ parameters = <<>>
    /\ graph = None
    /\ available_outputs = EmptyDict
    /\ \E arg \in ParamDicts \cup {v \in ParamScalars : v.t = "str"} :
          ret = [op |-> "none", arg |-> arg, out |-> NoOutcome]
    /\ last_order = NoOutcome
    /\ kahn = KahnIdle
    /\ \E state \in StateMaps : pipeline = Running(state)

ResolveParams ==
    /\ pipeline.pc = "running"
    /\ ret.arg.t = "dict"
    /\ ret' = [op |-> "_resolve_params", arg |-> ret.arg,
               out |-> _resolve_params(ret.arg, pipeline.state)]
    /\ UNCHANGED <<nodes, edges, parameters, graph, available_outputs,
                   last_order, kahn, pipeline>>

ResolveParamVariable ==
    /\ pipeline.pc = "running"
    /\ ret.arg.t = "str"
    /\ ret' = [op |-> "_resolve_param_variable", arg |-> ret.arg,
               out |-> _resolve_param_variable(ret.arg.v, pipeline.state)]
    /\ UNCHANGED <<nodes, edges, parameters, graph, available_outputs,
                   last_order, kahn, pipeline>>

ResolveTemplate ==
    /\ pipeline.pc = "running"
    /\ ret.arg.t = "str"
    /\ ret' = [op |-> "_resolve_template", arg |-> ret.arg,
               out |-> _resolve_template(ret.arg.v, pipeline.state)]
    /\ UNCHANGED <<nodes, edges, parameters, graph, available_outputs,
                   last_order, kahn, pipeline>>

NextResolve == ResolveParams \/ ResolveParamVariable \/ ResolveTemplate

\* the resolvers on drawn state maps and parameters
SpecResolve == InitResolve /\ [][NextResolve]_vars

(***************************************************************************)
(* C14: _resolve_params replaces a parameter whose entire value is exactly *)
(* one token {{name}} by the value stored under name itself, its shape     *)
(* unchanged; in a sequence-valued parameter each whole-token element is   *)
(* resolved the same way and every other element passes through           *)
(* unchanged; parameters that are not tokens pass through unchanged.       *)
(***************************************************************************)
\* the value is exactly one token
WholeToken(value) ==
    value.t = "str" /\ \E name \in ResolveNames : value.v = Token(name)

\* the name of a whole token
NameOf(value) == CHOOSE name \in ResolveNames : value.v = Token(name)

\* the value is a string with a token inside other text
EmbedsToken(value) ==
    /\ value.t = "str"
    /\ ~WholeToken(value)
    /\ \E name \in ResolveNames : TokenOccurs(name, value.v)

\* the parameters and the list elements of the call's argument
ScalarsOf(params) ==
    {params.v[i][2] : i \in 1..Len(params.v)}
    \cup UNION {Range(params.v[i][2].v) :
                   i \in {j \in 1..Len(params.v) : params.v[j][2].t = "list"}}

\* what the claim makes of a parameter or a list element
AsStored(value, state) ==
    IF WholeToken(value) THEN Item(state, NameOf(value)) ELSE value

\* what the claim makes of a parameter
AsClaimed(value, state) ==
    IF value.t = "list"
    THEN PyList([i \in 1..Len(value.v) |-> AsStored(value.v[i], state)])
    ELSE AsStored(value, state)

C14_StructuredResolution ==
    (/\ ret.op = "_resolve_params"
     /\ \A value \in ScalarsOf(ret.arg) :
           WholeToken(value) => HasKey(pipeline.state, NameOf(value)))
        => ret.out = Ok(PyDict([i \in 1..Len(ret.arg.v) |->
                                   <<ret.arg.v[i][1],
                                     AsClaimed(ret.arg.v[i][2], pipeline.state)>>]))

(***************************************************************************)
(* C14 as amended: as above, except that a string (a parameter or a list   *)
(* element) holding a token inside other text does not pass through        *)
(* unchanged: each of its tokens is replaced by str() of the stored value; *)
(* the call raises the unbound-variable error exactly when the name of a   *)
(* whole token has no entry, or the name of a token inside other text has  *)
(* no entry or is bound to None.                                           *)
(***************************************************************************)
\* the text of a string that embeds one token, the token replaced
Spliced(value, state) ==
    LET name == CHOOSE name \in ResolveNames : TokenOccurs(name, value.v)
        width == Len(Token(name))
        at == CHOOSE i \in 1..Len(value.v) :
                 /\ i + width - 1 <= Len(value.v)
                 /\ SubSeq(value.v, i, i + width - 1) = Token(name)
    IN PyStr(SubSeq(value.v, 1, at - 1)
             \o PyStrOf(Item(state, name))
             \o SubSeq(value.v, at + width, Len(value.v)))

AsStoredOrSpliced(value, state) ==
    IF WholeToken(value) THEN Item(state, NameOf(value))
    ELSE IF EmbedsToken(value) THEN Spliced(value, state)
    ELSE value

AsAmended(value, state) ==
    IF value.t = "list"
    THEN PyList([i \in 1..Len(value.v) |-> AsStoredOrSpliced(value.v[i], state)])
    ELSE AsStoredOrSpliced(value, state)

\* no token of the parameter or element stops the call
Resolves(value, state) ==
    /\ WholeToken(value) => HasKey(state, NameOf(value))
    /\ EmbedsToken(value) =>
          \A name \in ResolveNames :
              TokenOccurs(name, value.v) => Get(state, name) # None

C14_StructuredResolutionAmended ==
    ret.op = "_resolve_params" =>
        IF \A value \in ScalarsOf(ret.arg) : Resolves(value, pipeline.state)
        THEN ret.out = Ok(PyDict([i \in 1..Len(ret.arg.v) |->
                                     <<ret.arg.v[i][1],
                                       AsAmended(ret.arg.v[i][2], pipeline.state)>>]))
        ELSE /\ ret.out.kind = "raise"
             /\ ret.out.exc = "ValueError"
             /\ ret.out.value.available = Keys(pipeline.state)

\* a list parameter whose whole-token element is bound to a list and whose
\* other element embeds a token; the call returned the list in its shape
C14_Witness ==
    /\ ret.op = "_resolve_params"
    /\ ret.out.kind = "ok"
    /\ \E i \in 1..Len(ret.arg.v) :
          /\ ret.arg.v[i][2].t = "list"
          /\ \E j, k \in 1..Len(ret.arg.v[i][2].v) :
                /\ WholeToken(ret.arg.v[i][2].v[j])
                /\ ret.out.value.v[i][2].v[j].t = "list"
                /\ EmbedsToken(ret.arg.v[i][2].v[k])
                /\ ret.out.value.v[i][2].v[k] # ret.arg.v[i][2].v[k]

(***************************************************************************)
(* C15: _resolve_template has the same unbound-variable contract as        *)
(* _resolve_param_variable on a whole token: for every state map and name  *)
(* one raises the unbound-variable error if and only if the other does,    *)
(* namely exactly when the name has no entry in the state map; the error   *)
(* names the variable and the currently bound names.                       *)
(***************************************************************************)
C15_SameUnboundContract ==
    (ret.op = "_resolve_template" /\ WholeToken(ret.arg)) =>
        LET structured == _resolve_param_variable(ret.arg.v, pipeline.state)
            unbound == ~HasKey(pipeline.state, NameOf(ret.arg))
        IN /\ (ret.out.kind = "raise") = (structured.kind = "raise")
           /\ (ret.out.kind = "raise") = unbound
           /\ ret.out.kind = "raise" =>
                 /\ ret.out.value.name = NameOf(ret.arg)
                 /\ ret.out.value.available = Keys(pipeline.state)

(***************************************************************************)
(* The generated pipeline: its node functions.  graph.py is the pipeline   *)
(* generated for one document; each of its node functions is the code the  *)
(* generator emits for a node of that kind, with the node's config and     *)
(* output name filled in.                                                  *)
(***************************************************************************)
\* the key a node function stores its result under: a visualizer's is its
\* id followed by "_visualization" (line 163), any other node's its single
\* declared output, else the generator's inferred_output (lines 74, 108)
StoredKey(node) ==
    IF node.type = "visualizer"
    THEN node.id \o <<"_", "v", "i", "s", "u", "a", "l", "i", "z", "a", "t", "i", "o", "n">>
    ELSE IF node.outputs # <<>> THEN node.outputs[1].name
    ELSE _infer_output_name(node.id)

\* the characters a JSON string literal may hold after a backslash
JsonEscapes == {"\"", "\\", "/", "b", "f", "n", "r", "t", "u"}

\* the characters of a JSON text outside its string literals
JsonPlain ==
    {"{", "}", "[", "]", ":", ",", " ", "-", ".",
     "0", "1", "2", "3", "4", "5", "6", "7", "8", "9",
     "n", "u", "l", "t", "r", "e", "f", "a", "s"}

\* whether json.loads accepts the text a serialised template became: its
\* string literals are closed, hold no raw control character and no
\* unknown escape, and nothing else stands between them
RECURSIVE JsonLoadable(_, _, _)
JsonLoadable(text, i, in_string) ==
    IF i > Len(text) THEN ~in_string
    ELSE IF ~in_string
    THEN IF text[i] = "\"" THEN JsonLoadable(text, i + 1, TRUE)
         ELSE text[i] \in JsonPlain /\ JsonLoadable(text, i + 1, FALSE)
    ELSE IF text[i] = "\"" THEN JsonLoadable(text, i + 1, FALSE)
    ELSE IF text[i] = "\\"
    THEN /\ i < Len(text)
         /\ text[i + 1] \in JsonEscapes
         /\ JsonLoadable(text, i + 2, TRUE)
    ELSE text[i] \notin {"\n", "\r", "\t", "\f"} /\ JsonLoadable(text, i + 1, TRUE)

\* the state a node function returns when the mock hands it this result,
\* or the error it raises
\* state[key] = result; return state -- unless resolving raised
Stores(resolved, state, key, result) ==
    IF resolved.kind = "raise" THEN resolved ELSE Ok(SetItem(state, key, result))

\* resolved_template = json.loads(resolved_str)
JsonLoads(resolved_str) ==
    IF resolved_str.kind = "raise" THEN resolved_str
    ELSE IF ~JsonLoadable(resolved_str.value, 1, FALSE)
    THEN Raise("JSONDecodeError", resolved_str.value)
    ELSE resolved_str

\* what a node function resolves before it calls the mock
Resolved(node, state) ==
    IF node.type = "function_call"
    THEN _resolve_params(node.config.function_params, state)
    ELSE IF node.type = "llm_call"
    THEN _resolve_template(node.config.prompt_template.v, state)
    ELSE JsonLoads(_resolve_template(JsonDumps(node.config.template), state))

NodeFunction(node, state, result) ==
    Stores(Resolved(node, state), state, StoredKey(node), result)

\* what the mock library hands back to a node of this kind
MockResults(type) ==
    IF type = "function_call"
    THEN {PyList(<<PyStr(<<"r">>)>>), PyStr(<<"r", "\"">>)}
    ELSE IF type = "llm_call" THEN {PyStr(<<"t">>)}
    ELSE {PyDict(<< <<<<"c">>, PyStr(<<"c">>)>> >>)}

(***************************************************************************)
(* The generated pipeline: generation, construction and a run.  The        *)
(* pipeline is a graph of node functions over one state map: START has an  *)
(* edge to the start node only, every edge of the document is an edge of   *)
(* the graph, and a step of a run executes the nodes the previous step's   *)
(* edges lead to.  Each node function returns the whole state map, so two  *)
(* nodes of one step write the same keys and the run fails.                *)
(***************************************************************************)
MaxRunNodes == 2
MaxFlowNodes == 3
MaxFlowEdges == 2

\* the parameters declared with required: true (the default)
RequiredNames == {<<"q">>}

\* [p.name for p in parameters if p.required]
RECURSIVE RequiredInputs(_)
RequiredInputs(params) ==
    IF params = <<>> THEN <<>>
    ELSE (IF Head(params) \in RequiredNames THEN <<Head(params)>> ELSE <<>>)
         \o RequiredInputs(Tail(params))

\* [n.id for n in nodes if n.id not in target_nodes]
RECURSIVE StartNodes(_, _)
StartNodes(wnodes, wedges) ==
    IF wnodes = <<>> THEN <<>>
    ELSE (IF \E i \in 1..Len(wedges) : wedges[i].target_node = Head(wnodes).id
          THEN <<>> ELSE <<Head(wnodes).id>>)
         \o StartNodes(Tail(wnodes), wedges)

\* [n.id for n in nodes if n.id not in source_nodes]
RECURSIVE EndNodes(_, _)
EndNodes(wnodes, wedges) ==
    IF wnodes = <<>> THEN <<>>
    ELSE (IF \E i \in 1..Len(wedges) : wedges[i].source_node = Head(wnodes).id
          THEN <<>> ELSE <<Head(wnodes).id>>)
         \o EndNodes(Tail(wnodes), wedges)

\* context['start_node']
StartNode(wnodes, wedges, node_order) ==
    IF StartNodes(wnodes, wedges) # <<>> THEN StartNodes(wnodes, wedges)[1]
    ELSE IF node_order # <<>> THEN node_order[1]
    ELSE None

\* context['end_node']
EndNode(wnodes, wedges, node_order) ==
    IF EndNodes(wnodes, wedges) # <<>> THEN EndNodes(wnodes, wedges)[1]
    ELSE IF node_order # <<>> THEN node_order[Len(node_order)]
    ELSE None

\* the pipeline generated for a document: not yet constructed
Generated(wnodes, wedges, params, node_order) ==
    [pc |-> "generated",
     required |-> RequiredInputs(params),
     order |-> node_order,
     start |-> StartNode(wnodes, wedges, node_order),
     state |-> PyDict(<<>>), active |-> {}, log |-> <<>>, at |-> <<>>,
     out |-> NoOutcome]

\* the nodes the graph library can refuse to compile: a node no edge leads
\* to (START's edge leads to the start node), a node no edge leaves (the
\* end node's edge leads to END)
Unwired(wnodes, wedges, start, end) ==
    {id \in Range(NodeIdList(wnodes)) :
        \/ id # start /\ \A i \in 1..Len(wedges) : wedges[i].target_node # id
        \/ id # end /\ \A i \in 1..Len(wedges) : wedges[i].source_node # id}

\* the nodes the edges leaving these nodes lead to
Successors(wedges, ids) ==
    {wedges[i].target_node : i \in {j \in 1..Len(wedges) : wedges[j].source_node \in ids}}

\* the first required input the caller did not supply, if any
MissingInputs(required, inputs) ==
    SelectSeq(required, LAMBDA req : ~HasKey(inputs, req))

(***************************************************************************)
(* The documents a pipeline is generated for.  The parameter q is          *)
(* required, the parameter o is optional.                                  *)
(***************************************************************************)
RunNodeIds == {<<"a">>, <<"b">>}

FlowNodeIds == {<<"a">>, <<"b">>, <<"c">>}

\* function_params: {"p": "{{<ref>}}"}
RunCall(ref, outputs) ==
    [type |-> "function_call",
     config |-> [DefaultConfig EXCEPT
                    !.function_name = PyStr(<<"f">>),
                    !.function_params = PyDict(<< <<<<"p">>, PyStr(Token(ref))>> >>)],
     outputs |-> outputs]

\* prompt_template: "s {{<ref>}}"
RunAsk(ref) ==
    [type |-> "llm_call",
     config |-> [DefaultConfig EXCEPT
                    !.model = PyStr(<<"m">>),
                    !.prompt_template = PyStr(<<"s", " ">> \o Token(ref))],
     outputs |-> <<>>]

\* template: {"d": "{{<ref>}}"}
RunShow(ref) ==
    [type |-> "visualizer",
     config |-> [DefaultConfig EXCEPT
                    !.component_type = PyStr(<<"c">>),
                    !.template = PyDict(<< <<<<"d">>, PyStr(Token(ref))>> >>)],
     outputs |-> <<>>]

\* nodes referencing a parameter or the output of node a; one of them
\* declares an output named like the parameter q
RunProfiles ==
    {RunCall(ref, <<>>) : ref \in {<<"q">>, <<"o">>, <<"a">>}}
    \cup {RunCall(<<"q">>, <<[name |-> <<"q">>, type |-> "string"]>>)}
    \cup {RunAsk(ref) : ref \in {<<"q">>, <<"a">>}}
    \cup {RunShow(ref) : ref \in {<<"q">>, <<"a">>}}

\* lists of nodes with distinct ids
DistinctIds(lists) ==
    {q \in lists : \A i, j \in 1..Len(q) : q[i].id = q[j].id => i = j}

\* what a caller passes to execute(): any of the parameters and a key
\* named like the output of node a, the required parameter possibly None
InputDicts ==
    {PyDict(SelectSeq(<< <<<<"q">>, q>>, <<<<"o">>, o>>, <<<<"a">>, a>> >>,
                      LAMBDA item : item[2] # <<>>)) :
        q \in {<<>>, PyStr(<<"i">>), None},
        o \in {<<>>, PyNum(5)},
        a \in {<<>>, PyStr(<<"i">>)}}

\* the edges between different nodes of these ids, in a fixed order
AllEdges(ids) ==
    LET sorted == SortedSet(ids)
        pairs == {<<i, j>> \in (1..Len(sorted)) \X (1..Len(sorted)) : i # j}
        place(pair) == Cardinality({other \in pairs :
                           \/ other[1] < pair[1]
                           \/ other[1] = pair[1] /\ other[2] <= pair[2]})
    IN [k \in 1..Cardinality(pairs) |->
           LET pair == CHOOSE pair \in pairs : place(pair) = k
           IN EdgeModel(sorted[pair[1]], sorted[pair[2]])]

\* the lists of up to n of these edges, each in the order of `all`
EdgeLists(all, n) ==
    {[i \in 1..Len(ix) |-> all[ix[i]]] :
        ix \in {q \in SeqsUpTo(1..Len(all), n) :
                  \A i \in 1..(Len(q) - 1) : q[i] < q[i + 1]}}

\* documents of a few nodes that reference names, and larger graphs of
\* plain nodes
InitPipeline ==
    /\ \/ /\ nodes \in DistinctIds(SeqsUpTo({NodeModel(id, p) :
                                               id \in RunNodeIds, p \in RunProfiles},
                                            MaxRunNodes)) \ {<<>>}
          /\ edges \in EdgeLists(AllEdges(RunNodeIds), 1)
       \/ /\ nodes \in DistinctIds(SeqsUpTo({NodeModel(id, PlainProfile) :
                                               id \in FlowNodeIds},
                                            MaxFlowNodes)) \ {<<>>}
          /\ edges \in EdgeLists(AllEdges(FlowNodeIds), MaxFlowEdges)
    /\ parameters = << <<"q">>, <<"o">> >>
    /\ Constructed

(***************************************************************************)
(* The actions of the pipeline.                                            *)
(***************************************************************************)
\* cli translate after a successful validation: CodeGenerator, working on
\* a validator of its own, renders graph.py
Generate ==
    /\ pipeline = NoPipeline
    /\ ret.op = "validate"
    /\ ret.out.kind = "ok"
    /\ ret.out.value.is_valid
    /\ LET node_order == get_topological_order(nodes, edges, None).out
       IN /\ node_order.kind = "ok"
          /\ pipeline' = Generated(nodes, edges, parameters, node_order.value)
    /\ UNCHANGED <<nodes, edges, parameters, graph, available_outputs, ret,
                   last_order, kahn>>

\* the workflow class is instantiated: _build_graph() compiles the graph,
\* which the graph library may refuse when a node is not wired
Construct ==
    /\ pipeline.pc = "generated"
    /\ \/ pipeline' = [pipeline EXCEPT !.pc = "ready"]
       \/ \E id \in Unwired(nodes, edges, pipeline.start,
                            EndNode(nodes, edges, pipeline.order)) :
             pipeline' = [pipeline EXCEPT !.pc = "failed",
                                          !.out = Raise("ValueError", id)]
    /\ UNCHANGED <<nodes, edges, parameters, graph, available_outputs, ret,
                   last_order, kahn>>

\* execute(inputs): the required inputs are checked, every input is copied
\* into the initial state, the graph is invoked
Execute ==
    /\ pipeline.pc = "ready"
    /\ \E inputs \in InputDicts :
          LET missing == MissingInputs(pipeline.required, inputs)
          IN pipeline' =
                IF missing # <<>>
                THEN [pipeline EXCEPT !.pc = "failed",
                                      !.out = Raise("ValueError", missing[1])]
                ELSE [pipeline EXCEPT !.pc = "running",
                                      !.state = inputs,
                                      !.active = {pipeline.start}]
    /\ UNCHANGED <<nodes, edges, parameters, graph, available_outputs, ret,
                   last_order, kahn>>

\* the pipeline after the node function of id returned or raised
After(p, id, returned, wedges) ==
    IF returned.kind = "raise"
    THEN [p EXCEPT !.pc = "failed", !.at = id, !.out = returned]
    ELSE [p EXCEPT !.state = returned.value,
                   !.log = Append(@, {id}),
                   !.active = Successors(wedges, {id})]

\* a step of one node; among several active nodes, the one that raises
Ran(id, returned) ==
    /\ returned.kind = "raise" \/ pipeline.active = {id}
    /\ pipeline' = After(pipeline, id, returned, edges)

\* one step of graph.invoke(): the active nodes run on the state map
Step ==
    /\ pipeline.pc = "running"
    /\ \/ /\ pipeline.active = {}
          /\ pipeline' = [pipeline EXCEPT !.pc = "done",
                                          !.out = Ok(pipeline.state)]
       \/ \E id \in pipeline.active :
             \E result \in MockResults(NodeById(nodes, id).type) :
                Ran(id, NodeFunction(NodeById(nodes, id), pipeline.state, result))
       \/ /\ Cardinality(pipeline.active) > 1
          /\ \A id \in pipeline.active :
                \E result \in MockResults(NodeById(nodes, id).type) :
                   NodeFunction(NodeById(nodes, id), pipeline.state,
                                result).kind = "ok"
          /\ pipeline' = [pipeline EXCEPT
                             !.pc = "failed",
                             !.log = Append(@, pipeline.active),
                             !.out = Raise("InvalidUpdateError", pipeline.active)]
    /\ UNCHANGED <<nodes, edges, parameters, graph, available_outputs, ret,
                   last_order, kahn>>

NextPipeline == Validate \/ Generate \/ Construct \/ Execute \/ Step

\* validation, generation and runs of the generated pipeline
SpecPipeline == InitPipeline /\ [][NextPipeline]_vars

(***************************************************************************)
(* C12: validator and run time agree.  For every workflow that validate()  *)
(* accepts, when the generated pipeline runs its nodes in the validated    *)
(* execution order from an initial state holding the supplied inputs, all  *)
(* required inputs present, every {{name}} token a node resolves is bound  *)
(* in the state when the node runs: no node raises the unbound-variable    *)
(* error.                                                                  *)
(***************************************************************************)
\* the nodes run so far ran one at a time, in the validated order, and the
\* node that failed is the next one of that order
FailedInOrder ==
    /\ pipeline.pc = "failed"
    /\ pipeline.at # <<>>
    /\ Len(pipeline.log) < Len(pipeline.order)
    /\ \A i \in 1..Len(pipeline.log) : pipeline.log[i] = {pipeline.order[i]}
    /\ pipeline.at = pipeline.order[Len(pipeline.log) + 1]

C12_AcceptedTokensAreBound ==
    FailedInOrder => pipeline.out.exc # "ValueError"

(***************************************************************************)
(* C13: each pipeline node stores its result in the state map under        *)
(* exactly the output name the validator's scope analysis attributes to    *)
(* it -- its single declared output name, else the name inferred from its  *)
(* id -- for every node kind, visualizer nodes included.                   *)
(***************************************************************************)
\* the names bound in a state map
BoundNames(state) == {state.v[i][1] : i \in 1..Len(state.v)}

\* the step ran one node and the node returned
NodeReturned ==
    /\ pipeline.pc = "running"
    /\ pipeline'.pc = "running"
    /\ Len(pipeline'.log) = Len(pipeline.log) + 1

C13_StoredUnderAttributedName ==
    [][NodeReturned =>
        \E id \in pipeline.active :
            BoundNames(pipeline'.state) =
                BoundNames(pipeline.state)
                \cup DeclaredElseInferred(NodeById(nodes, id))]_vars

(***************************************************************************)
(* C16: the executing pipeline is strictly sequential and follows the      *)
(* validated execution order.  In one pipeline run every node of the       *)
(* workflow executes exactly once, no two nodes execute in the same step,  *)
(* and the nodes run in the order get_topological_order() returned -- for  *)
(* every valid DAG, including ones with several entry nodes, several exit  *)
(* nodes, or fan-out and fan-in edges.                                     *)
(***************************************************************************)
\* the steps of a run that executes the order one node at a time
OneByOne(order) == [i \in 1..Len(order) |-> {order[i]}]

\* the run was started and no node function raised in it
RunEnded ==
    \/ pipeline.pc = "done"
    \/ pipeline.pc = "failed" /\ pipeline.out.exc = "InvalidUpdateError"

C16_RunsOrderOneByOne ==
    /\ RunEnded => pipeline.log = OneByOne(pipeline.order)
    /\ pipeline.pc = "running" =>
          /\ Len(pipeline.log) <= Len(pipeline.order)
          /\ \A i \in 1..Len(pipeline.log) : pipeline.log[i] = {pipeline.order[i]}
          /\ Cardinality(pipeline.active) <= 1

(***************************************************************************)
(* C20: in a pipeline run of a workflow that validate() accepts, each      *)
(* step's write to the shared state map is a named insertion of a new key: *)
(* no node overwrites a value stored by another node or an input value     *)
(* supplied by the caller, and no key is ever removed, so every value once *)
(* bound stays bound to the same value until the run ends.                 *)
(***************************************************************************)
C20_WritesAreInsertions ==
    [][pipeline.pc = "running" =>
        \A i \in 1..Len(pipeline.state.v) :
            /\ HasKey(pipeline'.state, pipeline.state.v[i][1])
            /\ Item(pipeline'.state, pipeline.state.v[i][1]) = pipeline.state.v[i][2]]_vars

(***************************************************************************)
(* One _get_topological_order() call run to its end.  The call runs on the *)
(* caller's thread and nothing in it waits, so a step that can be taken is *)
(* taken.  The node lists may repeat an id and the edges may name ids that *)
(* no node has.                                                            *)
(***************************************************************************)
MaxLoopNodes == 2
MaxLoopEdges == 2

LoopNodeIds == {<<"a">>, <<"a", "b">>}

InitLoop ==
    /\ nodes \in SeqsUpTo({NodeModel(id, PlainProfile) : id \in LoopNodeIds},
                          MaxLoopNodes)
    /\ edges \in SeqsUpTo({EdgeModel(s, t) : s \in LoopNodeIds, t \in LoopNodeIds},
                          MaxLoopEdges)
    /\ parameters = <<>>
    /\ Constructed

SpecLoop == InitLoop /\ [][NextKahn]_vars /\ WF_vars(NextKahn)

(***************************************************************************)
(* C22: the validator always terminates.  For every finite node list and   *)
(* edge list, Kahn's loop in _get_topological_order() removes one node per *)
(* iteration and appends each node id at most once, so the ordering        *)
(* finishes after at most node-count iterations, whether the graph is      *)
(* acyclic or cyclic.                                                      *)
(***************************************************************************)
\* an iteration of the loop takes one id off the queue's ids and appends it
OneNodePerIteration ==
    (kahn.pc = "loop" /\ kahn'.pc = "loop") =>
        /\ Len(kahn'.result) = Len(kahn.result) + 1
        /\ kahn'.result[Len(kahn'.result)] \in Range(kahn.queue)

\* no id was appended twice, and no more ids than the document has nodes
AppendedAtMostOnce ==
    /\ \A i, j \in 1..Len(kahn.result) : kahn.result[i] = kahn.result[j] => i = j
    /\ Len(kahn.result) <= Len(nodes)

C22_OrderingTerminates ==
    /\ [][OneNodePerIteration]_vars
    /\ []AppendedAtMostOnce
    /\ <>(kahn.pc = "done")

\* the loop ended on a cyclic graph after at least one iteration, some node
\* left unordered
C22_Witness ==
    /\ kahn.pc = "done"
    /\ ret.out.kind = "raise"
    /\ ret.out.exc = "ValueError"
    /\ HasCycle
    /\ Len(kahn.result) > 0
    /\ Len(kahn.result) < Len(nodes)

(***************************************************************************)
(* _resolve_template on templates holding one token, the name bound to a   *)
(* text over a few characters: the five the replacer escapes, a control    *)
(* character it does not, and a letter.                                    *)
(***************************************************************************)
MaxValueLen == 3

EscapeAlphabet == {"\\", "\"", "\n", "\r", "\t", "\f", "v"}

\* the texts the name is bound to
EscapeTexts == SeqsUpTo(EscapeAlphabet, MaxValueLen)

\* a value that is no str: the list ["v\"", 7]
EscapeList == PyList(<<PyStr(<<"v", "\"">>), PyNum(7)>>)

\* template_str of a visualizer node: json.dumps({"d": "{{a}}"})
JsonTemplate == JsonDumps(PyDict(<< <<<<"d">>, PyStr(Token(<<"a">>))>> >>))

\* a prompt template: "s {{a}}"
PromptTemplate == <<"s", " ">> \o Token(<<"a">>)

InitEscape ==
    /\ nodes = <<>>
    /\ edges = <<>>
    /\ parameters = <<>>
    /\ graph = None
    /\ available_outputs = EmptyDict
    /\ \E template \in {JsonTemplate, PromptTemplate} :
          ret = [op |-> "none", arg |-> PyStr(template), out |-> NoOutcome]
    /\ last_order = NoOutcome
    /\ kahn = KahnIdle
    /\ \/ \E chars \in EscapeTexts :
             pipeline = Running(PyDict(<< <<<<"a">>, PyStr(chars)>> >>))
       \/ pipeline = Running(PyDict(<< <<<<"a">>, EscapeList>> >>))

\* _resolve_template on a drawn template and value
SpecEscape == InitEscape /\ [][ResolveTemplate]_vars

(***************************************************************************)
(* C21: string-safe escaping.  _resolve_template replaces each token by    *)
(* the value's textual form with backslash, double quote, newline,         *)
(* carriage return and tab escaped, in that order, so that every           *)
(* occurrence of those five characters in the textual form is escaped      *)
(* exactly once -- a backslash introduced by a later escape is never       *)
(* itself escaped again -- and no unescaped double quote and no raw        *)
(* newline, carriage return or tab of the value reaches the output; a      *)
(* value containing a double quote and a newline, spliced between the      *)
(* quotes of a JSON-encoded template, therefore leaves the template        *)
(* parseable.                                                              *)
(***************************************************************************)
\* the value's textual form: json.dumps for a dict, a list or a number,
\* str() for anything else
TextualForm(value) ==
    IF value.t = "str" THEN value.v ELSE JsonDumps(value)

\* the letter that stands for an escaped character
EscapeLetter(c) ==
    IF c = "\n" THEN "n" ELSE IF c = "\r" THEN "r" ELSE IF c = "\t" THEN "t" ELSE c

\* every one of the five characters escaped exactly once, in one pass
RECURSIVE EscapedOnce(_)
EscapedOnce(text) ==
    IF text = <<>> THEN <<>>
    ELSE (IF Head(text) \in {"\\", "\"", "\n", "\r", "\t"}
          THEN <<"\\", EscapeLetter(Head(text))>>
          ELSE <<Head(text)>>)
         \o EscapedOnce(Tail(text))

\* the text stands before and after the token of the template
Around(template, before, after) ==
    template = before \o Token(<<"a">>) \o after

\* the value bound to the name of the token
BoundValue == Item(pipeline.state, <<"a">>)

C21_EscapedOnceAndParseable ==
    (ret.op = "_resolve_template" /\ ret.out.kind = "ok") =>
        /\ \E k \in 0..Len(ret.arg.v) :
              /\ Around(ret.arg.v, SubSeq(ret.arg.v, 1, k),
                        SubSeq(ret.arg.v, k + 6, Len(ret.arg.v)))
              /\ ret.out.value = SubSeq(ret.arg.v, 1, k)
                                 \o EscapedOnce(TextualForm(BoundValue))
                                 \o SubSeq(ret.arg.v, k + 6, Len(ret.arg.v))
        /\ (/\ ret.arg.v = JsonTemplate
            /\ "\"" \in Range(TextualForm(BoundValue))
            /\ "\n" \in Range(TextualForm(BoundValue)))
           => JsonLoadable(ret.out.value, 1, FALSE)

====
